---- MODULE Spec2Model ----
(***************************************************************************)
(* Model of translate.py: the per-cell pipeline                            *)
(*   translate -> improve -> evaluate -> (refine) -> final evaluate        *)
(* run over every cell of every column of the input table, with the        *)
(* per-cell try/except and the write-back of the three result lists.       *)
(*                                                                         *)
(* The translation service and the generation service are external: each   *)
(* call draws its response from a small set (a text, a JSON document, or   *)
(* an exception).  Texts are abstract strings; a JSON object is a function *)
(* from its keys to its values, so that `key in dict` is `key \in DOMAIN`. *)
(***************************************************************************)
EXTENDS Integers, Sequences, FiniteSets, TLC

(* ---------------------------------------------------------------------- *)
(* Bounds of the model                                                     *)
(* ---------------------------------------------------------------------- *)
\* rows of the input table (cells per column)
NumCells == 2
\* columns of columns_to_translate that are processed
NumCols == 2

(* ---------------------------------------------------------------------- *)
(* Program constants                                                       *)
(* ---------------------------------------------------------------------- *)
\* the quality gate of the branch condition: evaluation.get("score", 5) < 4
QualityGate == 4
\* the score assumed by the branch condition when the key is absent
DefaultBranchScore == 5
\* the score recorded when the final evaluation has no "score" key
DefaultRecordedScore == 0

(* ---------------------------------------------------------------------- *)
(* Values                                                                  *)
(* ---------------------------------------------------------------------- *)
\* a missing cell of the spreadsheet (pd.isna)
NaN == "<NaN>"
\* a local variable that has not been assigned in this iteration
Unset == "<unset>"
None == [none |-> TRUE]
\* the values a source cell can hold
SourceCells == {NaN, "canape gris"}
\* what json.loads returns for a valid JSON document that is not an object
JsonArray == [json_array |-> TRUE]

\* str(e) of the exceptions the collaborators raise
ServiceErrors == {"quota exceeded"}
\* str(e) of json.JSONDecodeError
JsonDecodeError == "Expecting value"
\* str(e) of the AttributeError of calling .get on a non-dict
AttributeError == "object has no attribute 'get'"

\* scores the evaluator's JSON can carry: below the gate, passing, and
\* outside the 1-5 scale the prompt asks for
ResponseScores == {2, 5, 7}
ResponseFeedbacks == {"clear"}
ResponseAreas == {"", "tone too casual"}

\* the JSON objects the evaluator can answer with (response_format
\* json_object constrains the syntax, not the keys): the empty object, and
\* the objects with a feedback in which score and improvement_areas are each
\* present or absent
RECURSIVE DictsOver(_)
DictsOver(keyvals) ==
  IF keyvals = <<>> THEN { <<>> }
  ELSE LET k == keyvals[1][1]
           vs == keyvals[1][2]
           rest == DictsOver(Tail(keyvals))
       IN rest \cup { (k :> v) @@ d : v \in vs, d \in rest }

EvalObjects ==
  { <<>> } \cup
  { ("feedback" :> f) @@ d :
      f \in ResponseFeedbacks,
      d \in DictsOver(<< <<"score", ResponseScores>>,
                         <<"improvement_areas", ResponseAreas>> >>) }

\* responses of the translation service (translator.translate_text)
TranslateResponses ==
  { [kind |-> "raise", cause |-> c] : c \in ServiceErrors }
  \cup { [kind |-> "text", content |-> t] : t \in {"", "gray sofa"} }

\* responses of the generation service to the improvement prompt
ImproveResponses ==
  { [kind |-> "raise", cause |-> c] : c \in ServiceErrors }
  \cup { [kind |-> "text", content |-> t] : t \in {"  ", "grey sofa "} }

\* responses of the generation service to the refinement prompt
RefineResponses ==
  { [kind |-> "raise", cause |-> c] : c \in ServiceErrors }
  \cup { [kind |-> "text", content |-> t] : t \in {"  ", " elegant grey sofa"} }

\* responses of the generation service to the evaluation prompt: an
\* exception, text that is not JSON, JSON that is not an object, an object
EvalResponses ==
  { [kind |-> "raise", cause |-> c] : c \in ServiceErrors }
  \cup { [kind |-> "malformed"], [kind |-> "array"] }
  \cup { [kind |-> "object", obj |-> d] : d \in EvalObjects }

(* ---------------------------------------------------------------------- *)
(* Pure helpers                                                            *)
(* ---------------------------------------------------------------------- *)
\* dict.get(key, default)
Get(d, k, default) == IF k \in DOMAIN d THEN d[k] ELSE default

\* isinstance(v, dict): only dicts have .get
IsDict(v) == "json_array" \notin DOMAIN v /\ "none" \notin DOMAIN v

\* str.strip() on the contents the generation service returns
strip(s) ==
  CASE s = "  " -> ""
    [] s = "grey sofa " -> "grey sofa"
    [] s = " elegant grey sofa" -> "elegant grey sofa"
    [] OTHER -> s

\* f"Error: {str(e)}"
ErrorFeedback(cause) == "Error: " \o cause

\* json.loads on the content of the evaluator's answer
json_loads(resp) ==
  CASE resp.kind = "malformed" -> [ok |-> FALSE, value |-> None, cause |-> JsonDecodeError]
    [] resp.kind = "array" -> [ok |-> TRUE, value |-> JsonArray, cause |-> ""]
    [] OTHER -> [ok |-> TRUE, value |-> resp.obj, cause |-> ""]

(* ---------------------------------------------------------------------- *)
(* The stages, as functions of their arguments and of the response the     *)
(* generation service gives when they call it.  gen is the number of       *)
(* generation calls the invocation made, got the kind of response, terms   *)
(* the number of times it ran the terminology loop on its text.            *)
(* ---------------------------------------------------------------------- *)
Return(v, g, k) ==
  [kind |-> "return", value |-> v, cause |-> "", gen |-> g, got |-> k, terms |-> 0]
Raise(c, g, k) ==
  [kind |-> "raise", value |-> None, cause |-> c, gen |-> g, got |-> k, terms |-> 0]
\* the terminology loop ran once before the outcome
AfterTerminology(out) == [out EXCEPT !.terms = 1]

\* the variant that calls the generation service a second time after an
\* exception and gives up with an empty text
improve_with_retry(translated_text, resp) ==
  IF translated_text = "" THEN Return("", 0, "none")
  ELSE IF resp.kind = "raise" THEN AfterTerminology(Return("", 2, "raise"))
  ELSE AfterTerminology(Return(strip(resp.content), 1, "text"))

\* the terminology loop (lines 122-126) comes after the early return and
\* before the generation call
improve_text_with_gpt(translated_text, resp) ==
  IF translated_text = "" THEN Return("", 0, "none")
  ELSE IF resp.kind = "raise" THEN AfterTerminology(Raise(resp.cause, 1, "raise"))
  ELSE AfterTerminology(Return(strip(resp.content), 1, "text"))

\* the variant that enforces the glossary on the text it refines as well
refine_with_terminology(first_pass_text, quality_criteria, resp) ==
  IF first_pass_text = "" THEN Return("", 0, "none")
  ELSE IF resp.kind = "raise" THEN AfterTerminology(Raise(resp.cause, 1, "raise"))
  ELSE AfterTerminology(Return(strip(resp.content), 1, "text"))

refine_translation(first_pass_text, quality_criteria, resp) ==
  IF first_pass_text = "" THEN Return("", 0, "none")
  ELSE IF resp.kind = "raise" THEN Raise(resp.cause, 1, "raise")
  ELSE Return(strip(resp.content), 1, "text")

\* the variant without the early return for an empty text
evaluate_without_empty_check(translated_text, improved_text, resp) ==
  IF resp.kind = "raise" THEN Raise(resp.cause, 1, "raise")
  ELSE LET parsed == json_loads(resp)
       IN IF parsed.ok THEN Return(parsed.value, 1, resp.kind)
          ELSE Return([score |-> 0,
                       feedback |-> ErrorFeedback(parsed.cause),
                       improvement_areas |-> ""], 1, resp.kind)

\* the variant in which a parse failure escapes the stage
evaluate_raising_on_parse_failure(translated_text, improved_text, resp) ==
  IF translated_text = "" \/ improved_text = ""
  THEN Return([score |-> 0, feedback |-> "Empty translation"], 0, "none")
  ELSE IF resp.kind = "raise" THEN Raise(resp.cause, 1, "raise")
  ELSE LET parsed == json_loads(resp)
       IN IF parsed.ok THEN Return(parsed.value, 1, resp.kind)
          ELSE Raise(parsed.cause, 1, resp.kind)

evaluate_translation_quality(translated_text, improved_text, resp) ==
  IF translated_text = "" \/ improved_text = ""
  THEN Return([score |-> 0, feedback |-> "Empty translation"], 0, "none")
  ELSE IF resp.kind = "raise" THEN Raise(resp.cause, 1, "raise")
  ELSE LET parsed == json_loads(resp)
       IN IF parsed.ok THEN Return(parsed.value, 1, resp.kind)
          ELSE Return([score |-> 0,
                       feedback |-> ErrorFeedback(parsed.cause),
                       improvement_areas |-> ""], 1, resp.kind)

(* ---------------------------------------------------------------------- *)
(* Terminology and context helpers.  Here a text is a sequence of          *)
(* characters, so that substring search and replacement are computed.      *)
(* ---------------------------------------------------------------------- *)
\* longest text given to the terminology loop, in pieces of TextPieces
MaxPieces == 2

\* TERMINOLOGY, in the order of the dict
TERMINOLOGY ==
  << << << "c", "a", "n", "a", "p", "é" >>,
        << "s", "o", "f", "a" >> >>,
     << << "t", "a", "b", "l", "e", " ", "b", "a", "s", "s", "e" >>,
        << "c", "o", "f", "f", "e", "e", " ", "t", "a", "b", "l", "e" >> >>,
     << << "l", "i", "t" >>,
        << "b", "e", "d" >> >>,
     << << "a", "r", "m", "o", "i", "r", "e" >>,
        << "w", "a", "r", "d", "r", "o", "b", "e" >> >>,
     << << "c", "o", "u", "s", "s", "i", "n" >>,
        << "c", "u", "s", "h", "i", "o", "n" >> >>,
     << << "d", "é", "c", "o", "r", "a", "t", "i", "o", "n" >>,
        << "d", "e", "c", "o", "r" >> >>,
     << << "s", "a", "l", "o", "n" >>,
        << "l", "i", "v", "i", "n", "g", " ", "r", "o", "o", "m" >> >>,
     << << "c", "h", "a", "m", "b", "r", "e" >>,
        << "b", "e", "d", "r", "o", "o", "m" >> >> >>

\* str.lower() on the characters the inputs use
LowerChar(c) ==
  CASE c = "C" -> "c"
    [] c = "L" -> "l"
    [] c = "T" -> "t"
    [] c = "B" -> "b"
    [] OTHER -> c
lower(s) == [i \in 1..Len(s) |-> LowerChar(s[i])]

\* sub in s
Contains(s, sub) ==
  \E i \in 1..(Len(s) - Len(sub) + 1) : SubSeq(s, i, i + Len(sub) - 1) = sub

\* s.replace(old, new): the occurrences of old, found from left to right
\* without overlap, are replaced by new
RECURSIVE replace(_, _, _)
replace(s, old, new) ==
  IF Len(s) < Len(old) THEN s
  ELSE IF SubSeq(s, 1, Len(old)) = old
       THEN new \o replace(SubSeq(s, Len(old) + 1, Len(s)), old, new)
       ELSE << s[1] >> \o replace(Tail(s), old, new)

\* for fr_term, en_term in TERMINOLOGY.items():
\*     if fr_term.lower() in original_text.lower():
\*         improved_translation = improved_translation.replace(fr_term, en_term)
\* from the k-th term on
RECURSIVE terminology_loop(_, _, _)
terminology_loop(text, original, k) ==
  IF k > Len(TERMINOLOGY) THEN text
  ELSE LET fr_term == TERMINOLOGY[k][1]
           en_term == TERMINOLOGY[k][2]
           next == IF Contains(lower(original), lower(fr_term))
                   THEN replace(text, fr_term, en_term)
                   ELSE text
       IN terminology_loop(next, original, k + 1)

apply_terminology(translated_text, original_text) ==
  terminology_loop(translated_text, original_text, 1)

\* the texts the terminology loop is applied to
TextPieces ==
  { << "t", "a", "b", "l", "e", " ", "b", "a", "s", "s", "e" >>,
    << " ", "b", "a", "s", "s", "e" >>,
    << "l", "i", "t" >>,
    << "c", "a", "n", "a", "p", "é" >>,
    << " ", "s", "o", "f", "a" >>,
    << "L", "i", "t", " " >> }
RECURSIVE TextsOf(_)
TextsOf(n) ==
  IF n = 0 THEN { << >> }
  ELSE LET shorter == TextsOf(n - 1)
       IN shorter \cup { t \o piece : t \in shorter, piece \in TextPieces }
\* the original texts: with one term, with two in another case, with none
OriginalTexts ==
  { << "t", "a", "b", "l", "e", " ", "b", "a", "s", "s", "e" >>,
    << "C", "a", "n", "a", "p", "é", " ", "L", "i", "t" >>,
    << "b", "a", "n", "c" >> }

\* the columns of the table the context is taken from, and the columns of
\* columns_to_translate the model distinguishes
NameColumn == "name - fr-FR"
CategoryColumn == "category - fr-FR"
CurrentColumns == {"name - fr-FR", "color - fr-FR"}
\* the values of a cell of a context column
ContextValues == {NaN, "Canape Oslo"}
\* the tables: the color column and any of the two context columns, with
\* NumCells rows
Tables ==
  { [columns |-> {"color - fr-FR"} \cup cs, rows |-> rs] :
      cs \in SUBSET {NameColumn, CategoryColumn},
      rs \in [1..NumCells -> [{NameColumn, CategoryColumn} -> ContextValues]] }

\* the variant without the test on the current column
get_column_context_any_column(df, row_index, current_column) ==
  LET name == IF NameColumn \in df.columns
              THEN ("product_name" :> df.rows[row_index][NameColumn])
              ELSE << >>
      category == IF CategoryColumn \in df.columns
                  THEN ("category" :> df.rows[row_index][CategoryColumn])
                  ELSE << >>
  IN name @@ category

get_column_context(df, row_index, current_column) ==
  LET name == IF NameColumn \in df.columns /\ current_column # NameColumn
              THEN ("product_name" :> df.rows[row_index][NameColumn])
              ELSE << >>
      category == IF CategoryColumn \in df.columns
                  THEN ("category" :> df.rows[row_index][CategoryColumn])
                  ELSE << >>
  IN name @@ category

\* if additional_context:
\*     for key, value in additional_context.items():
\*         if value and not pd.isna(value): context_info += f"{key}: {value}\n"
\* as the sequence of the lines, each a pair of key and value
context_info(additional_context) ==
  LET line(k) == IF /\ k \in DOMAIN additional_context
                    /\ additional_context[k] # ""
                    /\ additional_context[k] # NaN
                 THEN << << k, additional_context[k] >> >>
                 ELSE << >>
  IN line("product_name") \o line("category")

(* ---------------------------------------------------------------------- *)
(* State                                                                   *)
(* ---------------------------------------------------------------------- *)
VARIABLES
  pc,                \* position of the script
  col,               \* index of the column being processed (outer for)
  idx,               \* number of cells of the column already consumed
  improved_texts,    \* per-column result lists
  quality_scores,
  quality_feedbacks,
  original_text,     \* locals of the loop body
  translated_text,
  first_pass,
  evaluation,
  improved_text,
  final_evaluation,
  written,           \* number of columns whose results were stored in df
  cell,              \* outcome of the current cell: state of section 4.6
  calls,             \* stage invocations of the current cell, in order
  raised,            \* stage whose exception ended the current cell
  fn                 \* last application of a helper called on its own

vars == << pc, col, idx, improved_texts, quality_scores, quality_feedbacks,
           original_text, translated_text, first_pass, evaluation,
           improved_text, final_evaluation, written, cell, calls, raised,
           fn >>

\* the state of the script
script == << pc, col, idx, improved_texts, quality_scores, quality_feedbacks,
             original_text, translated_text, first_pass, evaluation,
             improved_text, final_evaluation, written, cell, calls, raised >>

lists == << improved_texts, quality_scores, quality_feedbacks >>
locals == << original_text, translated_text, first_pass, evaluation,
             improved_text, final_evaluation >>

\* one entry of calls: the stage, the candidate text and the criteria it was
\* given, whether it called the generation service and what it got from it,
\* the exception it raised ("" if none), how often it ran the terminology
\* loop on its text and, for the Evaluation Stage, the evaluation it returned
Call(stage, text, criteria, out) ==
  [stage |-> stage, text |-> text, criteria |-> criteria,
   gen |-> out.gen, got |-> out.got, cause |-> out.cause,
   terms |-> out.terms,
   ret |-> IF stage = "evaluate" THEN out.value ELSE None]

InitScript ==
  /\ pc = "loop"
  /\ col = 1
  /\ idx = 0
  /\ improved_texts = <<>>
  /\ quality_scores = <<>>
  /\ quality_feedbacks = <<>>
  /\ original_text = Unset
  /\ translated_text = Unset
  /\ first_pass = Unset
  /\ evaluation = None
  /\ improved_text = Unset
  /\ final_evaluation = None
  /\ written = 0
  /\ cell = "NONE"
  /\ calls = <<>>
  /\ raised = "none"

Init ==
  /\ InitScript
  /\ fn = [op |-> "none"]

(* ---------------------------------------------------------------------- *)
(* The except clause of the loop body                                      *)
(* ---------------------------------------------------------------------- *)
\* the variant in which the exception is not caught and ends the script
except_reraise(texts, cause, stage) ==
  /\ improved_texts' = texts
  /\ UNCHANGED << quality_scores, quality_feedbacks, idx >>
  /\ cell' = "ERROR"
  /\ raised' = stage
  /\ pc' = "aborted"

\* except Exception as e: three appends, then the next iteration.
\* texts is improved_texts as the try block left it.
except_handler(texts, cause, stage) ==
  /\ improved_texts' = Append(texts, "")
  /\ quality_scores' = Append(quality_scores, 0)
  /\ quality_feedbacks' = Append(quality_feedbacks, ErrorFeedback(cause))
  /\ cell' = "ERROR"
  /\ raised' = stage
  /\ idx' = idx + 1
  /\ pc' = "loop"

(* ---------------------------------------------------------------------- *)
(* for idx, original_text in enumerate(df[col])                            *)
(* ---------------------------------------------------------------------- *)
\* the variant that sends a missing cell into the try block
EmptyCell_translated ==
  /\ pc = "loop"
  /\ col <= NumCols
  /\ idx < NumCells
  /\ original_text' = NaN
  /\ translated_text' = Unset
  /\ first_pass' = Unset
  /\ evaluation' = None
  /\ improved_text' = Unset
  /\ final_evaluation' = None
  /\ cell' = "START"
  /\ calls' = <<>>
  /\ raised' = "none"
  /\ pc' = "translate"
  /\ UNCHANGED << col, idx, written, lists >>
  /\ UNCHANGED fn

\* a missing cell: three appends, no call
EmptyCell ==
  /\ pc = "loop"
  /\ col <= NumCols
  /\ idx < NumCells
  /\ original_text' = NaN
  /\ improved_texts' = Append(improved_texts, "")
  /\ quality_scores' = Append(quality_scores, 0)
  /\ quality_feedbacks' = Append(quality_feedbacks, "")
  /\ idx' = idx + 1
  /\ translated_text' = Unset
  /\ first_pass' = Unset
  /\ evaluation' = None
  /\ improved_text' = Unset
  /\ final_evaluation' = None
  /\ cell' = "EMPTY"
  /\ calls' = <<>>
  /\ raised' = "none"
  /\ UNCHANGED << pc, col, written >>
  /\ UNCHANGED fn

\* a cell with text enters the try block
StartCell ==
  /\ pc = "loop"
  /\ col <= NumCols
  /\ idx < NumCells
  /\ \E t \in SourceCells \ {NaN} : original_text' = t
  /\ translated_text' = Unset
  /\ first_pass' = Unset
  /\ evaluation' = None
  /\ improved_text' = Unset
  /\ final_evaluation' = None
  /\ cell' = "START"
  /\ calls' = <<>>
  /\ raised' = "none"
  /\ pc' = "translate"
  /\ UNCHANGED << col, idx, written, lists >>
  /\ UNCHANGED fn

\* translator.translate_text(original_text, target_lang="EN-GB")
Translate ==
  /\ pc = "translate"
  /\ \E resp \in TranslateResponses :
       LET c == [stage |-> "translate", text |-> original_text,
                 criteria |-> "", gen |-> 0, got |-> resp.kind,
                 cause |-> IF resp.kind = "raise" THEN resp.cause ELSE "",
                 terms |-> 0, ret |-> None]
       IN /\ calls' = Append(calls, c)
          /\ IF resp.kind = "raise"
             THEN /\ except_handler(improved_texts, resp.cause, "translate")
                  /\ UNCHANGED translated_text
             ELSE /\ translated_text' = resp.content
                  /\ pc' = "improve"
                  /\ cell' = "NORMALIZED"
                  /\ UNCHANGED << lists, idx, raised >>
  /\ UNCHANGED << col, written, original_text, first_pass, evaluation,
                  improved_text, final_evaluation >>
  /\ UNCHANGED fn

\* first_pass = improve_text_with_gpt(translated_text, original_text, col, context)
Improve ==
  /\ pc = "improve"
  /\ \E resp \in ImproveResponses :
       LET out == improve_text_with_gpt(translated_text, resp)
       IN /\ calls' = Append(calls, Call("improve", translated_text, "", out))
          /\ IF out.kind = "raise"
             THEN /\ except_handler(improved_texts, out.cause, "improve")
                  /\ UNCHANGED first_pass
             ELSE /\ first_pass' = out.value
                  /\ pc' = "evaluate"
                  /\ cell' = "IMPROVED"
                  /\ UNCHANGED << lists, idx, raised >>
  /\ UNCHANGED << col, written, original_text, translated_text, evaluation,
                  improved_text, final_evaluation >>
  /\ UNCHANGED fn

\* evaluation = evaluate_translation_quality(original_text, translated_text, first_pass, col)
Evaluate ==
  /\ pc = "evaluate"
  /\ \E resp \in EvalResponses :
       LET out == evaluate_translation_quality(translated_text, first_pass, resp)
       IN /\ calls' = Append(calls, Call("evaluate", first_pass, "", out))
          /\ IF out.kind = "raise"
             THEN /\ except_handler(improved_texts, out.cause, "evaluate")
                  /\ UNCHANGED evaluation
             ELSE /\ evaluation' = out.value
                  /\ pc' = "branch"
                  /\ cell' = "EVALUATED"
                  /\ UNCHANGED << lists, idx, raised >>
  /\ UNCHANGED << col, written, original_text, translated_text, first_pass,
                  improved_text, final_evaluation >>
  /\ UNCHANGED fn

(* ---------------------------------------------------------------------- *)
(* The branch: if evaluation.get("score", 5) < 4 and                       *)
(*                "improvement_areas" in evaluation                        *)
(* ---------------------------------------------------------------------- *)
\* the variant whose gate is a different number
ShouldRefine_gate2(ev) ==
  /\ Get(ev, "score", DefaultBranchScore) < 2
  /\ "improvement_areas" \in DOMAIN ev

\* the variant that takes a missing score for the lowest one
ShouldRefine_default0(ev) ==
  /\ Get(ev, "score", 0) < QualityGate
  /\ "improvement_areas" \in DOMAIN ev

\* the variant that forgets the score
ShouldRefine_noscore(ev) ==
  "improvement_areas" \in DOMAIN ev

ShouldRefine(ev) ==
  /\ Get(ev, "score", DefaultBranchScore) < QualityGate
  /\ "improvement_areas" \in DOMAIN ev

\* evaluation.get on a value that is not a dict: AttributeError, caught by
\* the except clause before anything was appended
BranchError ==
  /\ pc = "branch"
  /\ ~ IsDict(evaluation)
  /\ except_handler(improved_texts, AttributeError, "branch")
  /\ UNCHANGED << col, written, locals, calls >>
  /\ UNCHANGED fn

\* the variant that goes back to the evaluation with the refined text, and
\* so refines again as long as the score stays below the gate
Refine_again ==
  /\ pc = "branch"
  /\ IsDict(evaluation)
  /\ ShouldRefine(evaluation)
  /\ \E resp \in RefineResponses :
       LET criteria == evaluation["improvement_areas"]
           out == refine_translation(first_pass, criteria, resp)
       IN /\ calls' = Append(calls, Call("refine", first_pass, criteria, out))
          /\ IF out.kind = "raise"
             THEN /\ except_handler(improved_texts, out.cause, "refine")
                  /\ UNCHANGED first_pass
             ELSE /\ first_pass' = out.value
                  /\ pc' = "evaluate"
                  /\ cell' = "REFINED"
                  /\ UNCHANGED << lists, idx, raised >>
  /\ UNCHANGED << col, written, original_text, translated_text, improved_text,
                  evaluation, final_evaluation >>
  /\ UNCHANGED fn

\* refined_text = refine_translation(first_pass, original_text, col,
\*                                   evaluation["improvement_areas"])
Refine ==
  /\ pc = "branch"
  /\ IsDict(evaluation)
  /\ ShouldRefine(evaluation)
  /\ \E resp \in RefineResponses :
       LET criteria == evaluation["improvement_areas"]
           out == refine_translation(first_pass, criteria, resp)
       IN /\ calls' = Append(calls, Call("refine", first_pass, criteria, out))
          /\ IF out.kind = "raise"
             THEN /\ except_handler(improved_texts, out.cause, "refine")
                  /\ UNCHANGED improved_text
             ELSE /\ improved_text' = out.value
                  /\ pc' = "final"
                  /\ cell' = "REFINED"
                  /\ UNCHANGED << lists, idx, raised >>
  /\ UNCHANGED << col, written, original_text, translated_text, first_pass,
                  evaluation, final_evaluation >>
  /\ UNCHANGED fn

\* the variant that keeps the raw machine translation
SkipRefine_raw ==
  /\ pc = "branch"
  /\ IsDict(evaluation)
  /\ ~ ShouldRefine(evaluation)
  /\ improved_text' = translated_text
  /\ pc' = "final"
  /\ UNCHANGED << col, idx, written, lists, original_text, translated_text,
                  first_pass, evaluation, final_evaluation, cell, calls,
                  raised >>
  /\ UNCHANGED fn

\* else: improved_text = first_pass
SkipRefine ==
  /\ pc = "branch"
  /\ IsDict(evaluation)
  /\ ~ ShouldRefine(evaluation)
  /\ improved_text' = first_pass
  /\ pc' = "final"
  /\ UNCHANGED << col, idx, written, lists, original_text, translated_text,
                  first_pass, evaluation, final_evaluation, cell, calls,
                  raised >>
  /\ UNCHANGED fn

(* ---------------------------------------------------------------------- *)
(* Final evaluation and the three appends                                  *)
(* ---------------------------------------------------------------------- *)
\* the variant that records the evaluation that decided the branch
recorded_from_first(fe) ==
  << Get(evaluation, "score", DefaultRecordedScore),
     Get(evaluation, "feedback", "") >>

\* final_evaluation.get("score", 0), final_evaluation.get("feedback", "")
recorded(fe) ==
  << Get(fe, "score", DefaultRecordedScore), Get(fe, "feedback", "") >>

\* the variant that evaluates the first-pass text whatever was selected
FinalEvaluate_on_first_pass ==
  /\ pc = "final"
  /\ \E resp \in EvalResponses :
       LET out == evaluate_translation_quality(translated_text, first_pass, resp)
       IN /\ calls' = Append(calls, Call("evaluate", first_pass, "", out))
          /\ IF out.kind = "raise"
             THEN /\ except_handler(improved_texts, out.cause, "final_evaluate")
                  /\ UNCHANGED final_evaluation
             ELSE /\ final_evaluation' = out.value
                  /\ IF IsDict(out.value)
                     THEN /\ improved_texts' = Append(improved_texts, improved_text)
                          /\ quality_scores' = Append(quality_scores, recorded(out.value)[1])
                          /\ quality_feedbacks' = Append(quality_feedbacks, recorded(out.value)[2])
                          /\ idx' = idx + 1
                          /\ pc' = "loop"
                          /\ cell' = "DONE"
                          /\ UNCHANGED raised
                     ELSE except_handler(Append(improved_texts, improved_text),
                                         AttributeError, "record")
  /\ UNCHANGED << col, written, original_text, translated_text, first_pass,
                  evaluation, improved_text >>
  /\ UNCHANGED fn

\* final_evaluation = evaluate_translation_quality(original_text,
\*     translated_text, improved_text, col); then the appends.  The text is
\*     appended before final_evaluation.get is first called.
FinalEvaluate ==
  /\ pc = "final"
  /\ \E resp \in EvalResponses :
       LET out == evaluate_translation_quality(translated_text, improved_text, resp)
       IN /\ calls' = Append(calls, Call("evaluate", improved_text, "", out))
          /\ IF out.kind = "raise"
             THEN /\ except_handler(improved_texts, out.cause, "final_evaluate")
                  /\ UNCHANGED final_evaluation
             ELSE /\ final_evaluation' = out.value
                  /\ IF IsDict(out.value)
                     THEN /\ improved_texts' = Append(improved_texts, improved_text)
                          /\ quality_scores' = Append(quality_scores, recorded(out.value)[1])
                          /\ quality_feedbacks' = Append(quality_feedbacks, recorded(out.value)[2])
                          /\ idx' = idx + 1
                          /\ pc' = "loop"
                          /\ cell' = "DONE"
                          /\ UNCHANGED raised
                     ELSE except_handler(Append(improved_texts, improved_text),
                                         AttributeError, "record")
  /\ UNCHANGED << col, written, original_text, translated_text, first_pass,
                  evaluation, improved_text >>
  /\ UNCHANGED fn

(* ---------------------------------------------------------------------- *)
(* After the cell loop: df[new_col] = improved_texts, df[quality_col] =    *)
(* quality_scores, df[feedback_col] = quality_feedbacks.  pandas raises    *)
(* ValueError when a list is not as long as the table; nothing catches it. *)
(* The locals of the cell loop are not read again: the model forgets them. *)
(* ---------------------------------------------------------------------- *)
WriteColumns ==
  /\ pc = "loop"
  /\ col <= NumCols
  /\ idx = NumCells
  /\ IF /\ Len(improved_texts) = NumCells
        /\ Len(quality_scores) = NumCells
        /\ Len(quality_feedbacks) = NumCells
     THEN /\ written' = written + 1
          /\ col' = col + 1
          /\ IF col < NumCols
             THEN /\ idx' = 0
                  /\ improved_texts' = <<>>
                  /\ quality_scores' = <<>>
                  /\ quality_feedbacks' = <<>>
                  /\ pc' = "loop"
             ELSE /\ pc' = "save"
                  /\ UNCHANGED << idx, lists >>
     ELSE /\ pc' = "aborted"
          /\ UNCHANGED << col, idx, written, lists >>
  /\ original_text' = Unset
  /\ translated_text' = Unset
  /\ first_pass' = Unset
  /\ evaluation' = None
  /\ improved_text' = Unset
  /\ final_evaluation' = None
  /\ cell' = "NONE"
  /\ calls' = <<>>
  /\ raised' = "none"
  /\ UNCHANGED fn

\* df.to_excel(output_file_path, index=False)
Save ==
  /\ pc = "save"
  /\ pc' = "saved"
  /\ UNCHANGED << col, idx, written, lists, locals, cell, calls, raised >>
  /\ UNCHANGED fn

Next ==
  \/ EmptyCell
  \/ StartCell
  \/ Translate
  \/ Improve
  \/ Evaluate
  \/ BranchError
  \/ Refine
  \/ SkipRefine
  \/ FinalEvaluate
  \/ WriteColumns
  \/ Save

Spec == Init /\ [][Next]_vars

\* the script runs to its end: nothing but the services can stall it
FairSpec == Spec /\ WF_vars(Next)

(* ---------------------------------------------------------------------- *)
(* The helpers on their own: each step applies one of them to inputs drawn *)
(* from the sets above.                                                    *)
(* ---------------------------------------------------------------------- *)
\* the arguments of a call of one of the helpers
TerminologyArgs ==
  { [op |-> "terminology_args", translated_text |-> t, original_text |-> o] :
      t \in TextsOf(MaxPieces), o \in OriginalTexts }
\* the current column is one of df.columns
ContextArgs ==
  { a \in { [op |-> "context_args", df |-> df, row_index |-> row_index,
            current_column |-> c] :
              df \in Tables, row_index \in 1..NumCells,
              c \in CurrentColumns } :
      a.current_column \in a.df.columns }

InitFn ==
  /\ InitScript
  /\ fn \in TerminologyArgs \cup ContextArgs

\* the terminology loop, applied once and applied again to its own output
ApplyTerminology ==
  /\ fn.op = "terminology_args"
  /\ LET once == apply_terminology(fn.translated_text, fn.original_text)
     IN fn' = [op |-> "terminology", translated_text |-> fn.translated_text,
               original_text |-> fn.original_text, once |-> once,
               twice |-> apply_terminology(once, fn.original_text)]
  /\ UNCHANGED script

\* context = get_column_context(df, idx, col), and its serialization in
\* improve_text_with_gpt
ExtractContext ==
  /\ fn.op = "context_args"
  /\ LET context == get_column_context(fn.df, fn.row_index, fn.current_column)
     IN fn' = [op |-> "context", df |-> fn.df, row_index |-> fn.row_index,
               current_column |-> fn.current_column, context |-> context,
               info |-> context_info(context)]
  /\ UNCHANGED script

NextFn ==
  \/ ApplyTerminology
  \/ ExtractContext

SpecFn == InitFn /\ [][NextFn]_vars

TypeOK ==
  /\ pc \in {"loop", "translate", "improve", "evaluate", "branch", "final",
             "save", "saved", "aborted"}
  /\ idx \in 0..NumCells
  /\ col \in 1..(NumCols + 1)
  /\ Len(quality_scores) = Len(quality_feedbacks)

(* ---------------------------------------------------------------------- *)
(* Vocabulary of the properties                                            *)
(* ---------------------------------------------------------------------- *)
\* the stage names of a sequence of calls
StagesOf(cs) == [i \in 1..Len(cs) |-> cs[i].stage]
\* the invocations that called the generation service
IsGenCall(c) == c.gen = 1
GenCalls == SelectSeq(calls, IsGenCall)
RefineCalled == \E i \in 1..Len(calls) : calls[i].stage = "refine"
\* the first evaluation returned and the branch after it has been taken
BranchTaken == Len(calls) >= 3 /\ calls[3].cause = "" /\ pc # "branch"
\* the current cell has just been recorded through the success path
CellDone == cell = "DONE" /\ idx > 0
\* what the Evaluation Stage substitutes for an answer that does not parse
Sentinel ==
  [score |-> 0, feedback |-> "Error: Expecting value", improvement_areas |-> ""]
RaisingStages == {"translate", "improve", "evaluate", "refine", "final_evaluate"}

(* ---------------------------------------------------------------------- *)
(* C1                                                                      *)
(* ---------------------------------------------------------------------- *)
\* C1: once the branch after the first evaluation has been taken, the
\* Refinement Stage has been called if and only if the first evaluation has
\* a score below 4 and a non-empty improvement_areas value.
C1_RefineIffLowScoreAndNonEmptyAreas ==
  BranchTaken =>
    ( RefineCalled <=>
        /\ IsDict(evaluation)
        /\ "score" \in DOMAIN evaluation
        /\ evaluation["score"] < 4
        /\ "improvement_areas" \in DOMAIN evaluation
        /\ evaluation["improvement_areas"] # "" )

(* ---------------------------------------------------------------------- *)
(* C2                                                                      *)
(* ---------------------------------------------------------------------- *)
\* C2: a step in which the translation call or one of the three stages
\* raises appends exactly ("", 0, "Error: <cause>") to the three lists and
\* leaves the script in the cell loop at the next cell; and the script is
\* never aborted while the three lists are equally long, so no raising
\* stage aborts the batch.
C2_RaiseIsRecordedAndIsolated ==
  /\ [][ (raised = "none" /\ raised' \in RaisingStages) =>
           /\ improved_texts' = Append(improved_texts, "")
           /\ quality_scores' = Append(quality_scores, 0)
           /\ quality_feedbacks' =
                Append(quality_feedbacks,
                       "Error: " \o calls'[Len(calls')].cause)
           /\ calls'[Len(calls')].cause \in ServiceErrors
           /\ cell' = "ERROR"
           /\ pc' = "loop"
           /\ idx' = idx + 1
           /\ col' = col ]_vars
  /\ [](pc = "aborted" => Len(improved_texts) # Len(quality_scores))

\* a stage raised in the first cell of the last column, the cells after it
\* were processed and the results were saved
C2_Witness ==
  /\ pc = "saved"
  /\ written = NumCols
  /\ Len(improved_texts) = NumCells
  /\ improved_texts[1] = ""
  /\ quality_scores[1] = 0
  /\ quality_feedbacks[1] = "Error: quota exceeded"
  /\ improved_texts[NumCells] = "grey sofa"
  /\ quality_scores[NumCells] = 5

(* ---------------------------------------------------------------------- *)
(* C3                                                                      *)
(* ---------------------------------------------------------------------- *)
\* C3: the three result lists always have the same length, the number of
\* cells of the column processed so far.
C3_OneResultPerCell ==
  /\ Len(improved_texts) = idx
  /\ Len(quality_scores) = idx
  /\ Len(quality_feedbacks) = idx

(* ---------------------------------------------------------------------- *)
(* C4                                                                      *)
(* ---------------------------------------------------------------------- *)
\* C4: when a cell reaches DONE, the last call of the cell is a call of the
\* Evaluation Stage and the recorded score and feedback are the score and
\* the feedback of the evaluation it returned (0 and "" for a key the
\* evaluation does not have).
C4_RecordedIsLastEvaluation ==
  CellDone =>
    LET last == calls[Len(calls)]
    IN /\ last.stage = "evaluate"
       /\ quality_scores[Len(quality_scores)] =
            (IF "score" \in DOMAIN last.ret THEN last.ret["score"] ELSE 0)
       /\ quality_feedbacks[Len(quality_feedbacks)] =
            (IF "feedback" \in DOMAIN last.ret THEN last.ret["feedback"] ELSE "")

\* a refined cell whose two evaluations differ in score
C4_Witness ==
  /\ CellDone
  /\ RefineCalled
  /\ evaluation = [score |-> 2, feedback |-> "clear",
                   improvement_areas |-> "tone too casual"]
  /\ calls[Len(calls)].ret = [score |-> 5, feedback |-> "clear"]
  /\ quality_scores[Len(quality_scores)] = 5
  /\ quality_feedbacks[Len(quality_feedbacks)] = "clear"

(* ---------------------------------------------------------------------- *)
(* C5                                                                      *)
(* ---------------------------------------------------------------------- *)
\* C5: when the first evaluation of a cell gets an answer that does not
\* parse, the evaluation is the sentinel, the Refinement Stage is not
\* called, and the cell, once DONE, is recorded as the first-pass candidate
\* with score 0 and the sentinel's "Error: ..." feedback.
C5_UnparsableFirstEvaluationSkipsRefinement ==
  (Len(calls) >= 3 /\ calls[3].got = "malformed") =>
    /\ evaluation = Sentinel
    /\ ~ RefineCalled
    /\ CellDone =>
         /\ improved_texts[Len(improved_texts)] = first_pass
         /\ quality_scores[Len(quality_scores)] = 0
         /\ quality_feedbacks[Len(quality_feedbacks)] = Sentinel.feedback

LowScoreWithAreas ==
  /\ IsDict(evaluation)
  /\ "score" \in DOMAIN evaluation
  /\ evaluation["score"] < 4
  /\ "improvement_areas" \in DOMAIN evaluation
  /\ evaluation["improvement_areas"] # ""

\* what C7 and its amendment share: the stages are called in the order
\* improve, evaluate, refine, evaluate; the one refinement call gets the
\* first-pass candidate and the improvement_areas of the first evaluation;
\* the second evaluation gets the refined candidate; the refined candidate
\* is recorded with the score and feedback of the second evaluation.
RefinedPath ==
  /\ StagesOf(calls) = << "translate", "improve", "evaluate", "refine", "evaluate" >>
  /\ calls[4].text = first_pass
  /\ calls[4].criteria = evaluation["improvement_areas"]
  /\ calls[5].text = improved_text
  /\ improved_texts[Len(improved_texts)] = improved_text
  /\ quality_scores[Len(quality_scores)] =
       (IF "score" \in DOMAIN calls[5].ret THEN calls[5].ret["score"] ELSE 0)
  /\ quality_feedbacks[Len(quality_feedbacks)] =
       (IF "feedback" \in DOMAIN calls[5].ret THEN calls[5].ret["feedback"] ELSE "")

\* C7 as stated: a cell that reaches DONE after a first evaluation with a
\* score below 4 and non-empty improvement_areas made exactly four
\* generation calls, improve, evaluate, refine, evaluate.
C7_FourCallsOnRefinedPath ==
  (CellDone /\ LowScoreWithAreas) =>
    /\ RefinedPath
    /\ StagesOf(GenCalls) = << "improve", "evaluate", "refine", "evaluate" >>

\* C7 amended: the same, except that the second evaluation calls the
\* generation service only when the refined text is not empty; for an empty
\* refined text there are three generation calls and the cell is recorded
\* as ("", 0, "Empty translation").
C7_RefinedPathCalls ==
  (CellDone /\ LowScoreWithAreas) =>
    /\ RefinedPath
    /\ improved_text # "" =>
         StagesOf(GenCalls) = << "improve", "evaluate", "refine", "evaluate" >>
    /\ improved_text = "" =>
         /\ StagesOf(GenCalls) = << "improve", "evaluate", "refine" >>
         /\ improved_texts[Len(improved_texts)] = ""
         /\ quality_scores[Len(quality_scores)] = 0
         /\ quality_feedbacks[Len(quality_feedbacks)] = "Empty translation"

\* the scenario of the spec: score 2 with "tone too casual", then 5
C7_Witness ==
  /\ CellDone
  /\ LowScoreWithAreas
  /\ evaluation["score"] = 2
  /\ calls[4].criteria = "tone too casual"
  /\ improved_texts[Len(improved_texts)] = "elegant grey sofa"
  /\ quality_scores[Len(quality_scores)] = 5
  /\ Len(GenCalls) = 4

C9_ScoreInRange ==
  /\ \A i \in 1..Len(calls) :
       (calls[i].stage = "evaluate" /\ "score" \in DOMAIN calls[i].ret) =>
         calls[i].ret["score"] \in 0..5
  /\ \A i \in 1..Len(quality_scores) : quality_scores[i] \in 0..5

(* ---------------------------------------------------------------------- *)
(* C10                                                                     *)
(* ---------------------------------------------------------------------- *)
\* C10: an Evaluation Stage call whose answer does not parse returns the
\* sentinel {score 0, feedback "Error: <cause>", improvement_areas ""} and
\* raises nothing: right after it the cell is not in ERROR, it is at the
\* branch (first evaluation) or DONE with score 0 and the sentinel's
\* feedback (final evaluation).
C10_ParseFailureAbsorbed ==
  \A i \in 1..Len(calls) :
    (calls[i].stage = "evaluate" /\ calls[i].got = "malformed") =>
      /\ calls[i].cause = ""
      /\ calls[i].ret = Sentinel
      /\ i = Len(calls) =>
           /\ cell # "ERROR"
           /\ raised = "none"
           /\ i = 3 => (pc = "branch" /\ evaluation = Sentinel)
           /\ i > 3 => cell = "DONE"
           /\ (i > 3 /\ idx > 0) =>
                /\ quality_scores[Len(quality_scores)] = 0
                /\ quality_feedbacks[Len(quality_feedbacks)] = Sentinel.feedback

\* a cell whose final evaluation did not parse, recorded as DONE
C10_Witness ==
  /\ CellDone
  /\ calls[Len(calls)].stage = "evaluate"
  /\ calls[Len(calls)].got = "malformed"
  /\ improved_texts[Len(improved_texts)] = "grey sofa"
  /\ quality_feedbacks[Len(quality_feedbacks)] = "Error: Expecting value"

(* ---------------------------------------------------------------------- *)
(* C11                                                                     *)
(* ---------------------------------------------------------------------- *)
\* C11: while the current cell is a missing source cell, no translation or
\* generation call has been made for it, it is not an error result, and
\* the entry it appended to the three lists is ("", 0, "").
C11_MissingCellIsEmptyResult ==
  original_text = NaN =>
    /\ calls = <<>>
    /\ cell = "EMPTY"
    /\ raised = "none"
    /\ pc \in {"loop", "save"}
    /\ idx > 0
    /\ Len(quality_scores) = idx
    /\ quality_scores[idx] = 0
    /\ quality_feedbacks[idx] = ""
    /\ improved_texts[Len(improved_texts)] = ""

\* a missing cell that follows a cell with text
C11_Witness ==
  /\ original_text = NaN
  /\ cell = "EMPTY"
  /\ idx = 2
  /\ improved_texts = << "grey sofa", "" >>
  /\ quality_scores = << 5, 0 >>
  /\ quality_feedbacks = << "clear", "" >>

(* ---------------------------------------------------------------------- *)
(* C14                                                                     *)
(* ---------------------------------------------------------------------- *)
EmptyStub == [score |-> 0, feedback |-> "Empty translation"]

\* C14: an Evaluation Stage call whose raw translation or candidate text is
\* empty returns {score 0, feedback "Empty translation"} without a
\* generation call; a cell whose first-pass text is empty gets no
\* refinement call and is recorded as ("", 0, "Empty translation").
C14_EmptyTextShortCircuits ==
  /\ \A i \in 1..Len(calls) :
       (calls[i].stage = "evaluate" /\ (calls[i].text = "" \/ translated_text = "")) =>
         /\ calls[i].gen = 0
         /\ calls[i].cause = ""
         /\ calls[i].ret = EmptyStub
  /\ (first_pass = "" /\ Len(calls) >= 3) =>
       /\ ~ RefineCalled
       /\ cell # "ERROR"
       /\ CellDone =>
            /\ improved_texts[Len(improved_texts)] = ""
            /\ quality_scores[Len(quality_scores)] = 0
            /\ quality_feedbacks[Len(quality_feedbacks)] = "Empty translation"

\* the improvement of a non-empty translation came back empty
C14_Witness ==
  /\ CellDone
  /\ translated_text = "gray sofa"
  /\ first_pass = ""
  /\ StagesOf(GenCalls) = << "improve" >>
  /\ StagesOf(calls) = << "translate", "improve", "evaluate", "evaluate" >>
  /\ quality_feedbacks[Len(quality_feedbacks)] = "Empty translation"

(* ---------------------------------------------------------------------- *)
(* C15                                                                     *)
(* ---------------------------------------------------------------------- *)
\* C15: an Improvement Stage invocation makes exactly one generation call
\* for a non-empty text and none, with an empty result, for an empty text;
\* a Refinement Stage invocation makes at most one; and an exception of the
\* generation service in either stage is the last thing the stage does: the
\* cell ends in ERROR with that exception, without another call.
C15_NoRetry ==
  \A i \in 1..Len(calls) :
    /\ calls[i].stage = "improve" =>
         /\ calls[i].text # "" => calls[i].gen = 1
         /\ calls[i].text = "" => (calls[i].gen = 0 /\ first_pass = "")
    /\ calls[i].stage = "refine" => calls[i].gen \in {0, 1}
    /\ (calls[i].stage \in {"improve", "refine"} /\ calls[i].got = "raise") =>
         /\ i = Len(calls)
         /\ calls[i].cause \in ServiceErrors
         /\ cell = "ERROR"
         /\ raised = calls[i].stage
         /\ quality_feedbacks[Len(quality_feedbacks)] = "Error: " \o calls[i].cause

\* the generation service failed in the Refinement Stage
C15_Witness ==
  /\ cell = "ERROR"
  /\ raised = "refine"
  /\ StagesOf(GenCalls) = << "improve", "evaluate", "refine" >>
  /\ quality_feedbacks[Len(quality_feedbacks)] = "Error: quota exceeded"

(* ---------------------------------------------------------------------- *)
(* C16                                                                     *)
(* ---------------------------------------------------------------------- *)
\* C16: when the first evaluation is an object without a score, the
\* Refinement Stage is never called for the cell, whatever
\* improvement_areas holds.
C16_MissingScoreNeverRefines ==
  (Len(calls) >= 3 /\ IsDict(evaluation) /\ "score" \notin DOMAIN evaluation) =>
    /\ ~ RefineCalled
    /\ pc \in {"final", "loop", "save"} => improved_text = first_pass

\* no score, but improvement areas: recorded without refinement
C16_Witness ==
  /\ CellDone
  /\ evaluation = [feedback |-> "clear", improvement_areas |-> "tone too casual"]
  /\ ~ RefineCalled
  /\ improved_texts[Len(improved_texts)] = "grey sofa"

(* ---------------------------------------------------------------------- *)
(* C18                                                                     *)
(* ---------------------------------------------------------------------- *)
CountOf(stage) ==
  Cardinality({ i \in 1..Len(calls) : calls[i].stage = stage })

\* C18: a cell never makes more than one translation call, one Improvement
\* call, one Refinement call and two Evaluation calls, so a refined
\* candidate is not refined again whatever its score; and every cell that
\* entered the try block ends in DONE or ERROR.
C18_CellTerminatesWithBoundedCalls ==
  /\ [](/\ CountOf("translate") <= 1
        /\ CountOf("improve") <= 1
        /\ CountOf("refine") <= 1
        /\ CountOf("evaluate") <= 2
        /\ Len(calls) <= 5)
  /\ (cell = "START") ~> (cell \in {"DONE", "ERROR"})

\* a refined candidate that scores below the gate again, with improvement
\* areas, is recorded as it is
C18_Witness ==
  /\ CellDone
  /\ CountOf("refine") = 1
  /\ CountOf("evaluate") = 2
  /\ final_evaluation = [score |-> 2, feedback |-> "clear",
                         improvement_areas |-> "tone too casual"]
  /\ improved_texts[Len(improved_texts)] = "elegant grey sofa"
  /\ quality_scores[Len(quality_scores)] = 2

(* ---------------------------------------------------------------------- *)
(* C19                                                                     *)
(* ---------------------------------------------------------------------- *)
\* C19: when a cell reaches DONE, the recorded improved_text is the text
\* that was given to the last Evaluation Stage call of the cell: the text
\* selected at the branch, which is the first-pass text when no refinement
\* ran.
C19_RecordedTextIsEvaluatedText ==
  CellDone =>
    /\ calls[Len(calls)].stage = "evaluate"
    /\ improved_texts[Len(improved_texts)] = calls[Len(calls)].text
    /\ improved_texts[Len(improved_texts)] = improved_text
    /\ ~ RefineCalled => improved_text = first_pass

\* a refined cell: the second evaluation got the refined text
C19_Witness ==
  /\ CellDone
  /\ RefineCalled
  /\ first_pass = "grey sofa"
  /\ calls[Len(calls)].text = "elegant grey sofa"
  /\ calls[Len(calls)].gen = 1
  /\ improved_texts[Len(improved_texts)] = "elegant grey sofa"

(* ---------------------------------------------------------------------- *)
(* C13                                                                     *)
(* ---------------------------------------------------------------------- *)
\* C13: in the processing of a cell the terminology loop runs at most once;
\* when it runs, it runs in the Improvement Stage, on the raw machine
\* translation, and no generation call has been made before; the
\* Refinement Stage and the Evaluation Stage never run it.
C13_TerminologyAtMostOnce ==
  /\ Cardinality({ i \in 1..Len(calls) : calls[i].terms > 0 }) <= 1
  /\ \A i \in 1..Len(calls) :
       calls[i].terms > 0 =>
         /\ calls[i].terms = 1
         /\ calls[i].stage = "improve"
         /\ calls[i].text = translated_text
         /\ \A j \in 1..(i - 1) : calls[j].gen = 0
  /\ \A i \in 1..Len(calls) :
       calls[i].stage \in {"refine", "evaluate"} => calls[i].terms = 0

\* a refined cell: one terminology pass, on the machine translation
C13_Witness ==
  /\ CellDone
  /\ RefineCalled
  /\ StagesOf(GenCalls) = << "improve", "evaluate", "refine", "evaluate" >>
  /\ calls[2].terms = 1
  /\ calls[2].text = "gray sofa"
  /\ calls[4].terms = 0
  /\ calls[4].text = "grey sofa"


(* ---------------------------------------------------------------------- *)
(* C12, C17: the helpers on their own                                      *)
(* ---------------------------------------------------------------------- *)
\* C12: the terminology loop is idempotent: applied, for the same original
\* text, to its own output it yields the text it yielded the first time.
C12_NormalizerIdempotent ==
  fn.op = "terminology" => fn.twice = fn.once

====
